---- MODULE Spec2Model ----
(***************************************************************************)
(* copilot-play: a wrapper that runs the copilot CLI in a pseudo-terminal, *)
(* shows its output in a log pane and a mini-game in a second pane, and    *)
(* moves keyboard focus between the two.                                   *)
(*                                                                         *)
(* Text is a sequence of characters; a character is a one-token string.    *)
(* "ESC" stands for \x1b, "CR" for \r, "LF" for \n, "TAB" for \t.          *)
(***************************************************************************)
EXTENDS Integers, Sequences, FiniteSets, TLC

VARIABLES
    lines,          \* OutputBuffer.lines
    partial,        \* OutputBuffer.partial
    game,           \* the Game object: width, height, player, target, score
    promptDetected, \* let promptDetected
    hookState,      \* let hookState
    hookMtime,      \* let hookMtime: <<>> for null, <<m>> for the number m
    manualFocus,    \* let manualFocus: "none" for null
    screenSize,     \* screen.width, screen.height
    gameBox,        \* gameBox.width, gameBox.height as layout() set them
    ptySize,        \* the size last given to ptyProcess.resize
    ptyWrites,      \* the ptyProcess.write calls of the handler that ran last, in order
    ptyAlive,       \* FALSE once the driven process has exited
    snapshot,       \* what output.snapshot() returned last
    header,         \* the status header last drawn: status, focus, hookLine, score
    exited,         \* <<>> while the wrapper runs, the quit steps once it has exited
    file,           \* the hook state file, written by an external process
    last,           \* the event handler that ran last
    keyFocus,       \* the keypress handler's focus, "none" when another handler ran last
    poll,           \* history: the last readHookState call: the file it saw, the
                    \* previousMtime and hookState it started from, its result,
                    \* whether it read the content, (lost) the stored mtime on
                    \* entry to the last call that found the file missing, and
                    \* (cut) the file's mtime at the last call that read content
                    \* JSON.parse threw on
    promptPatterns, \* args.promptPatterns
    appendLog,      \* history of BufferCall: its last two texts and the buffer before them
    produced        \* history of BufferCall: every line it pushed so far, in order

bufVars == <<lines, partial>>
histVars == <<appendLog, produced>>
arbVars == <<promptDetected, hookState, hookMtime, manualFocus>>
uiVars == <<screenSize, gameBox, ptySize, snapshot, header>>
ptyVars == <<ptyWrites, ptyAlive>>

vars == <<lines, partial, game, promptDetected, hookState, hookMtime, manualFocus,
          screenSize, gameBox, ptySize, ptyWrites, ptyAlive, snapshot, header, exited, file,
          last, keyFocus, poll, promptPatterns, appendLog, produced>>

(***************************************************************************)
(* Characters                                                              *)
(***************************************************************************)
ESC == "ESC"
CR == "CR"
LF == "LF"

Digits == {"0", "1", "2", "3", "4", "5", "6", "7", "8", "9"}

\* [0-9;?] of ANSI_RE
IsParam(c) == c \in Digits \cup {";", "?"}

UpperCase == {"A", "B", "C", "D", "E", "F", "G", "H", "I", "J", "K", "L", "M",
              "N", "O", "P", "Q", "R", "S", "T", "U", "V", "W", "X", "Y", "Z"}

LowerCase == {"a", "b", "c", "d", "e", "f", "g", "h", "i", "j", "k", "l", "m",
              "n", "o", "p", "q", "r", "s", "t", "u", "v", "w", "x", "y", "z"}

\* [A-Za-z] of ANSI_RE
IsLetter(c) == c \in UpperCase \cup LowerCase

(***************************************************************************)
(* OutputBuffer                                                            *)
(***************************************************************************)
\* The index of the first character at or after i that is not a parameter
\* character (Len(text) + 1 when there is none): the greedy [0-9;?]*.
RECURSIVE SkipParams(_, _)
SkipParams(text, i) ==
    IF i <= Len(text) /\ IsParam(text[i]) THEN SkipParams(text, i + 1) ELSE i

\* text.replace(ANSI_RE, "") from index i on: every leftmost, non-overlapping
\* match of ESC [ params letter is dropped, all else is kept.
RECURSIVE StripAnsiFrom(_, _)
StripAnsiFrom(text, i) ==
    IF i > Len(text) THEN <<>>
    ELSE IF text[i] = ESC /\ i + 1 <= Len(text) /\ text[i + 1] = "["
        THEN LET j == SkipParams(text, i + 2)
             IN  IF j <= Len(text) /\ IsLetter(text[j])
                     THEN StripAnsiFrom(text, j + 1)
                     ELSE <<text[i]>> \o StripAnsiFrom(text, i + 1)
        ELSE <<text[i]>> \o StripAnsiFrom(text, i + 1)

StripAnsi(text) == StripAnsiFrom(text, 1)

\* .replace(/\r/g, "")
StripCR(text) == SelectSeq(text, LAMBDA c : c # CR)

\* const cleaned = text.replace(ANSI_RE, "").replace(/\r/g, "")
Clean(text) == StripCR(StripAnsi(text))

\* cleaned.split("\n"): the segments between newlines, one more than newlines.
RECURSIVE SplitFrom(_, _, _)
SplitFrom(text, i, cur) ==
    IF i > Len(text) THEN <<cur>>
    ELSE IF text[i] = LF THEN <<cur>> \o SplitFrom(text, i + 1, <<>>)
    ELSE SplitFrom(text, i + 1, Append(cur, text[i]))

Split(text) == SplitFrom(text, 1, <<>>)

\* The number of newlines in text: parts.length - 1
NewLines(text) == Cardinality({i \in 1..Len(text) : text[i] = LF})

\* this.lines.slice(0, n): the oldest n lines
SliceFirst(ls, n) ==
    IF Len(ls) > n THEN SubSeq(ls, 1, n) ELSE ls

\* this.lines.slice(-n)
SliceLast(ls, n) ==
    IF Len(ls) > n THEN SubSeq(ls, Len(ls) - n + 1, Len(ls)) ELSE ls

\* The capacity of OutputBuffer.lines
MaxLines == 2000

\* if (this.lines.length > 2000) this.lines = this.lines.slice(-2000)
Truncate(ls) == IF Len(ls) > MaxLines THEN SliceLast(ls, MaxLines) ELSE ls

\* Pushed with the pending partial pushed as a line of its own
PushedApart(buf, text) ==
    LET parts == Split(Clean(text))
    IN  IF Len(parts) = 1 THEN <<>>
        ELSE <<buf.partial>> \o SubSeq(parts, 1, Len(parts) - 1)

\* The completed lines one append call pushes:
\* this.lines.push(this.partial + parts[0]); this.lines.push(...parts.slice(1, -1))
Pushed(buf, text) ==
    LET parts == Split(Clean(text))
    IN  IF Len(parts) = 1 THEN <<>>
        ELSE <<buf.partial \o parts[1]>> \o SubSeq(parts, 2, Len(parts) - 1)

\* OutputBuffer.append on the buffer [lines, partial]
BufferAppend(buf, text) ==
    LET parts == Split(Clean(text))
    IN  IF Len(parts) = 1
            THEN [lines |-> buf.lines, partial |-> buf.partial \o parts[1]]
            ELSE [lines |-> Truncate(buf.lines \o Pushed(buf, text)),
                  partial |-> parts[Len(parts)]]

\* OutputBuffer.snapshot
Snapshot(buf) ==
    IF buf.partial # <<>> THEN Append(buf.lines, buf.partial) ELSE buf.lines

Buffer == [lines |-> lines, partial |-> partial]

(***************************************************************************)
(* detectPrompt                                                            *)
(***************************************************************************)
\* The white space String.prototype.trim removes, within the alphabet used.
IsSpace(c) == c \in {" ", "TAB", CR, LF}

RECURSIVE TrimStart(_)
TrimStart(text) ==
    IF text # <<>> /\ IsSpace(Head(text)) THEN TrimStart(Tail(text)) ELSE text

RECURSIVE TrimEnd(_)
TrimEnd(text) ==
    IF text # <<>> /\ IsSpace(text[Len(text)])
        THEN TrimEnd(SubSeq(text, 1, Len(text) - 1))
        ELSE text

\* lines[i].trim()
Trim(text) == TrimEnd(TrimStart(text))

\* A pattern /^lit ?$/: the literal, optionally followed by one space.
Anchored(lit) == [kind |-> "anchored", lit |-> lit]

\* A pattern /lit/ as --prompt-regex may add: the literal anywhere in the line.
Contains(lit) == [kind |-> "contains", lit |-> lit]

\* const DEFAULT_PROMPTS = [/^> ?$/, /^copilot> ?$/, /^\u276f ?$/]
DEFAULT_PROMPTS ==
    << Anchored(<<">">>),
       Anchored(<<"c", "o", "p", "i", "l", "o", "t", ">">>),
       Anchored(<<"U276F">>) >>

\* pattern.test(line)
Test(pattern, line) ==
    IF pattern.kind = "anchored"
        THEN line = pattern.lit \/ line = pattern.lit \o <<" ">>
        ELSE \E i \in 1..(Len(line) - Len(pattern.lit) + 1) :
                SubSeq(line, i, i + Len(pattern.lit) - 1) = pattern.lit

\* DetectFrom going on to earlier lines when the line does not match
RECURSIVE DetectAnyLine(_, _, _)
DetectAnyLine(ls, i, patterns) ==
    IF i < 1 THEN FALSE
    ELSE LET line == Trim(ls[i])
         IN  \/ line # <<>> /\ \E k \in 1..Len(patterns) : Test(patterns[k], line)
             \/ DetectAnyLine(ls, i - 1, patterns)

\* The loop of detectPrompt from index i down to 1.
RECURSIVE DetectFrom(_, _, _)
DetectFrom(ls, i, patterns) ==
    IF i < 1 THEN FALSE
    ELSE LET line == Trim(ls[i])
         IN  IF line = <<>>
                 THEN DetectFrom(ls, i - 1, patterns)
                 ELSE \E k \in 1..Len(patterns) : Test(patterns[k], line)

\* detectPrompt(lines, patterns)
DetectPrompt(ls, patterns) == DetectFrom(ls, Len(ls), patterns)

(***************************************************************************)
(* The hook state file and readHookState                                   *)
(***************************************************************************)
\* null and a number, for hookMtime and previousMtime
Null == <<>>
Some(m) == <<m>>

\* What the content of the file can be: a JSON object whose state is "busy" or
\* "idle"; "other": JSON without a recognized state; "garbage": JSON.parse
\* throws on it (an empty or cut-off file, or the JSON null).
Bodies == {"busy", "idle", "other", "garbage"}

Absent == [exists |-> FALSE, mtime |-> 0, body |-> "garbage", readable |-> TRUE]

\* ReadHookState returning the file's own modification time when JSON.parse
\* throws
ReadHookStateKeepsBadMtime(f, previousMtime) ==
    IF ~f.exists
        THEN [state |-> "unknown", mtime |-> Null, read |-> FALSE]
    ELSE IF previousMtime # Null /\ Some(f.mtime) = previousMtime
        THEN [state |-> "unknown", mtime |-> previousMtime, read |-> FALSE]
    ELSE IF ~f.readable
        THEN [state |-> "unknown", mtime |-> previousMtime, read |-> FALSE]
    ELSE IF f.body = "garbage"
        THEN [state |-> "unknown", mtime |-> Some(f.mtime), read |-> TRUE]
    ELSE IF f.body \in {"busy", "idle"}
        THEN [state |-> f.body, mtime |-> Some(f.mtime), read |-> TRUE]
    ELSE [state |-> "unknown", mtime |-> Null, read |-> TRUE]

\* readHookState(stateFile, previousMtime) on the file f; read tells whether
\* fs.readFileSync returned the content.
ReadHookState(f, previousMtime) ==
    IF ~f.exists
        THEN [state |-> "unknown", mtime |-> Null, read |-> FALSE]
    ELSE IF previousMtime # Null /\ Some(f.mtime) = previousMtime
        THEN [state |-> "unknown", mtime |-> previousMtime, read |-> FALSE]
    ELSE IF ~f.readable
        THEN [state |-> "unknown", mtime |-> previousMtime, read |-> FALSE]
    ELSE IF f.body = "garbage"
        THEN [state |-> "unknown", mtime |-> previousMtime, read |-> TRUE]
    ELSE IF f.body \in {"busy", "idle"}
        THEN [state |-> f.body, mtime |-> Some(f.mtime), read |-> TRUE]
    ELSE [state |-> "unknown", mtime |-> Null, read |-> TRUE]

\* readHookState when the file changes between fs.statSync, which sees f, and
\* fs.readFileSync, which sees g
ReadHookStateAcross(f, g, previousMtime) ==
    IF ~f.exists
        THEN [state |-> "unknown", mtime |-> Null, read |-> FALSE]
    ELSE IF previousMtime # Null /\ Some(f.mtime) = previousMtime
        THEN [state |-> "unknown", mtime |-> previousMtime, read |-> FALSE]
    ELSE IF ~g.exists
        THEN [state |-> "unknown", mtime |-> Null, read |-> FALSE]
    ELSE IF ~g.readable
        THEN [state |-> "unknown", mtime |-> previousMtime, read |-> FALSE]
    ELSE IF g.body = "garbage"
        THEN [state |-> "unknown", mtime |-> previousMtime, read |-> TRUE]
    ELSE IF g.body \in {"busy", "idle"}
        THEN [state |-> g.body, mtime |-> Some(f.mtime), read |-> TRUE]
    ELSE [state |-> "unknown", mtime |-> Null, read |-> TRUE]

\* Reconcile taking the reader's state whenever the file is there
ReconcileTakesSentinel(res, hs, hm) ==
    IF res.mtime # Null
        THEN [hookState |-> res.state, hookMtime |-> res.mtime]
        ELSE [hookState |-> "unknown", hookMtime |-> Null]

\* Reconcile keeping the stored modification time when the file is missing
ReconcileKeepsMtime(res, hs, hm) ==
    IF res.mtime # Null /\ res.mtime # hm
        THEN [hookState |-> res.state, hookMtime |-> res.mtime]
    ELSE IF res.mtime = Null
        THEN [hookState |-> "unknown", hookMtime |-> hm]
    ELSE [hookState |-> hs, hookMtime |-> hm]

\* refreshHookState: the new [hookState, hookMtime] given the reader's result
Reconcile(res, hs, hm) ==
    IF res.mtime # Null /\ res.mtime # hm
        THEN [hookState |-> res.state, hookMtime |-> res.mtime]
    ELSE IF res.mtime = Null
        THEN [hookState |-> "unknown", hookMtime |-> Null]
    ELSE [hookState |-> hs, hookMtime |-> hm]

(***************************************************************************)
(* Game                                                                    *)
(***************************************************************************)
Max(a, b) == IF a > b THEN a ELSE b
Min(a, b) == IF a < b THEN a ELSE b

Cell(x, y) == [x |-> x, y |-> y]

\* PlaceTarget accepting the first sample, the player's cell included
PlaceTargetAnywhere(g, draws) ==
    IF g.width <= 1 \/ g.height <= 1
        THEN {[g EXCEPT !.target = Cell(0, 0)]}
        ELSE {[g EXCEPT !.target = c] :
                c \in {d \in draws : d.x < g.width /\ d.y < g.height}}

\* Game.placeTarget: the games it can leave, the accepted sample of
\* Math.random being one of the cells of draws.
PlaceTarget(g, draws) ==
    IF g.width <= 1 \/ g.height <= 1
        THEN {[g EXCEPT !.target = Cell(0, 0)]}
        ELSE {[g EXCEPT !.target = c] :
                c \in {d \in draws : /\ d.x < g.width
                                     /\ d.y < g.height
                                     /\ (d.x # g.player.x \/ d.y # g.player.y)}}

\* GameResize starting the score again
GameResizeZeroesScore(g, width, height, draws) ==
    LET w == Max(5, width)
        h == Max(5, height)
    IN  PlaceTarget([g EXCEPT !.width = w,
                              !.height = h,
                              !.score = 0,
                              !.player = Cell(Min(g.player.x, w - 1),
                                              Min(g.player.y, h - 1))],
                    draws)

\* Game.resize(width, height)
GameResize(g, width, height, draws) ==
    LET w == Max(5, width)
        h == Max(5, height)
    IN  PlaceTarget([g EXCEPT !.width = w,
                              !.height = h,
                              !.player = Cell(Min(g.player.x, w - 1),
                                              Min(g.player.y, h - 1))],
                    draws)

\* Game.reset()
GameReset(g, draws) ==
    PlaceTarget([g EXCEPT !.score = 0,
                          !.player = Cell(g.width \div 2, g.height \div 2)],
                draws)

\* GameMove without the upper bound on the player's coordinates
GameMoveUnclamped(g, dx, dy, draws) ==
    LET p == Cell(Max(0, g.player.x + dx), Max(0, g.player.y + dy))
        moved == [g EXCEPT !.player = p]
    IN  IF p.x = g.target.x /\ p.y = g.target.y
            THEN PlaceTarget([moved EXCEPT !.score = g.score + 1], draws)
            ELSE {moved}

\* GameMove adding to the score before it compares the cells
GameMoveAlwaysScores(g, dx, dy, draws) ==
    LET p == Cell(Max(0, Min(g.width - 1, g.player.x + dx)),
                  Max(0, Min(g.height - 1, g.player.y + dy)))
        moved == [g EXCEPT !.player = p, !.score = g.score + 1]
    IN  IF p.x = g.target.x /\ p.y = g.target.y
            THEN PlaceTarget(moved, draws)
            ELSE {moved}

\* Game.move(dx, dy)
GameMove(g, dx, dy, draws) ==
    LET p == Cell(Max(0, Min(g.width - 1, g.player.x + dx)),
                  Max(0, Min(g.height - 1, g.player.y + dy)))
        moved == [g EXCEPT !.player = p]
    IN  IF p.x = g.target.x /\ p.y = g.target.y
            THEN PlaceTarget([moved EXCEPT !.score = g.score + 1], draws)
            ELSE {moved}

\* new Game(), the field initializers
NewGame ==
    [width |-> 10, height |-> 6, player |-> Cell(0, 0), target |-> Cell(0, 0),
     score |-> 0]

(***************************************************************************)
(* layout and render                                                       *)
(***************************************************************************)
\* layout(): the game box
LayoutGameBox(size) ==
    [width |-> size.width, height |-> Max(8, size.height \div 3)]

\* layout(): ptyProcess.resize(Math.max(20, width - 2), Math.max(5, logHeight - 2))
LayoutPty(size) ==
    LET logHeight == size.height - Max(8, size.height \div 3)
    IN  [cols |-> Max(20, size.width - 2), rows |-> Max(5, logHeight - 2)]

\* const waiting = promptDetected || hookState === "idle"
Waiting(prompt, hs) == prompt \/ hs = "idle"

\* FocusOf with the automatic focus taking precedence over the override
FocusAutoFirst(mf, prompt, hs) ==
    IF prompt \/ hs = "idle" THEN "copilot"
    ELSE IF mf # "none" THEN mf ELSE "game"

\* const focus = manualFocus ?? (waiting ? "copilot" : "game")
FocusOf(mf, prompt, hs) ==
    IF mf # "none" THEN mf
    ELSE IF Waiting(prompt, hs) THEN "copilot" ELSE "game"

\* const status = waiting ? "PAUSED" : "RUNNING"
StatusOf(prompt, hs) == IF Waiting(prompt, hs) THEN "PAUSED" ELSE "RUNNING"

\* render(): the game after the resize to the game box
RenderGame(g, box, draws) ==
    LET gameWidth == box.width - 2
        gameHeight == box.height - 4
    IN  IF gameWidth > 4 /\ gameHeight > 4
            THEN GameResize(g, Min(30, gameWidth), Min(12, gameHeight), draws)
            ELSE {g}

\* HeaderOf drawing the automatic focus, whatever the override
HeaderIgnoresOverride(mf, prompt, hs, g) ==
    [status |-> StatusOf(prompt, hs),
     focus |-> IF Waiting(prompt, hs) THEN "copilot" ELSE "game",
     hookLine |-> IF hs = "unknown" THEN "n/a" ELSE hs,
     score |-> g.score]

\* render(): the header line
HeaderOf(mf, prompt, hs, g) ==
    [status |-> StatusOf(prompt, hs),
     focus |-> FocusOf(mf, prompt, hs),
     hookLine |-> IF hs = "unknown" THEN "n/a" ELSE hs,
     score |-> g.score]

\* render(), run at the end of a handler that leaves the game g, the prompt
\* flag prompt, the hook state hs and the override mf
Render(g, prompt, hs, mf, draws) ==
    /\ gameBox' = LayoutGameBox(screenSize')
    /\ ptySize' = LayoutPty(screenSize')
    /\ snapshot' = Snapshot([lines |-> lines', partial |-> partial'])
    /\ game' \in RenderGame(g, gameBox', draws)
    /\ header' = HeaderOf(mf, prompt, hs, game')

(***************************************************************************)
(* Keys and sendToCopilot                                                  *)
(***************************************************************************)
\* A key event: key.name, the character ch and key.sequence; <<>> stands for
\* undefined or the empty string.
Key(name, ch, sequence) == [name |-> name, ch |-> ch, sequence |-> sequence]

KeyEnter == Key("enter", <<CR>>, <<CR>>)
KeyRight == Key("right", <<>>, <<ESC, "[", "C">>)
KeyR == Key("r", <<"r">>, <<"r">>)
KeyX == Key("x", <<"x">>, <<"x">>)
KeyUp == Key("up", <<>>, <<ESC, "[", "A">>)
KeyDown == Key("down", <<>>, <<ESC, "[", "B">>)
KeyLeft == Key("left", <<>>, <<ESC, "[", "D">>)
KeyBackspace == Key("backspace", <<>>, <<"DEL">>)
KeyW == Key("w", <<"w">>, <<"w">>)
KeyUpperS == Key("s", <<"S">>, <<"S">>)
KeyUpperA == Key("a", <<"A">>, <<"A">>)
KeyD == Key("d", <<"d">>, <<"d">>)
KeyUpperR == Key("r", <<"R">>, <<"R">>)

\* A function key: a name and a raw sequence, no character
KeyF1 == Key("f1", <<>>, <<ESC, "O", "P">>)

\* A key event with a character only: no name, no sequence
KeyChOnly == Key("", <<"U00E9">>, <<>>)

\* A key event with no name, no character and no sequence
KeyNone == Key("", <<>>, <<>>)

\* Ctrl+G and Ctrl+Q as the keypress event carries them: the control
\* character \x07 (BEL) and \x11 (DC1)
KeyCtrlG == Key("g", <<"BEL">>, <<"BEL">>)
KeyCtrlQ == Key("q", <<"DC1">>, <<"DC1">>)

\* sendToCopilot: the writes to the pty, in order
SendToCopilot(key) ==
    IF key.name = "enter" THEN << <<CR>> >>
    ELSE IF key.name = "backspace" THEN << <<"DEL">> >>
    ELSE IF key.name = "up" THEN << <<ESC, "[", "A">> >>
    ELSE IF key.name = "down" THEN << <<ESC, "[", "B">> >>
    ELSE IF key.name = "left" THEN << <<ESC, "[", "D">> >>
    ELSE IF key.name = "right" THEN << <<ESC, "[", "C">> >>
    ELSE IF key.sequence # <<>> THEN << key.sequence >>
    ELSE IF key.ch # <<>> THEN << key.ch >>
    ELSE <<>>

\* GameKey with the up keys moving the player down
GameKeyUpMovesDown(g, key, draws) ==
    IF key.name = "up" \/ key.ch \in {<<"w">>, <<"W">>} THEN GameMove(g, 0, 1, draws)
    ELSE IF key.name = "down" \/ key.ch \in {<<"s">>, <<"S">>} THEN GameMove(g, 0, 1, draws)
    ELSE IF key.name = "left" \/ key.ch \in {<<"a">>, <<"A">>} THEN GameMove(g, -1, 0, draws)
    ELSE IF key.name = "right" \/ key.ch \in {<<"d">>, <<"D">>} THEN GameMove(g, 1, 0, draws)
    ELSE IF key.ch \in {<<"r">>, <<"R">>} THEN GameReset(g, draws)
    ELSE {}

\* The keypress handler in game focus: the games it can leave, or {} when the
\* key is not a game key and the handler returns without rendering.
GameKey(g, key, draws) ==
    IF key.name = "up" \/ key.ch \in {<<"w">>, <<"W">>} THEN GameMove(g, 0, -1, draws)
    ELSE IF key.name = "down" \/ key.ch \in {<<"s">>, <<"S">>} THEN GameMove(g, 0, 1, draws)
    ELSE IF key.name = "left" \/ key.ch \in {<<"a">>, <<"A">>} THEN GameMove(g, -1, 0, draws)
    ELSE IF key.name = "right" \/ key.ch \in {<<"d">>, <<"D">>} THEN GameMove(g, 1, 0, draws)
    ELSE IF key.ch \in {<<"r">>, <<"R">>} THEN GameReset(g, draws)
    ELSE {}

IsGameKey(key) ==
    \/ key.name \in {"up", "down", "left", "right"}
    \/ key.ch \in {<<"w">>, <<"W">>, <<"s">>, <<"S">>, <<"a">>, <<"A">>,
                    <<"d">>, <<"D">>, <<"r">>, <<"R">>}

(***************************************************************************)
(* History                                                                 *)
(***************************************************************************)
\* The append calls remembered: the last two texts and the buffer before them.
Logged(log, text) ==
    IF Len(log.texts) < 2
        THEN [log EXCEPT !.texts = Append(log.texts, text)]
        ELSE [from |-> BufferAppend(log.from, log.texts[1]),
              texts |-> <<log.texts[2], text>>]

\* The buffer before the last append call
BeforeLast(log) ==
    IF Len(log.texts) = 2 THEN BufferAppend(log.from, log.texts[1]) ELSE log.from

(***************************************************************************)
(* Event handlers                                                          *)
(***************************************************************************)
Running == exited = <<>>

\* output.append(text)
AppendOutput(text) ==
    LET buf == BufferAppend(Buffer, text)
    IN  /\ lines' = buf.lines
        /\ partial' = buf.partial

\* output.append(text); output.snapshot(): the buffer on its own
BufferCall(text) ==
    /\ AppendOutput(text)
    /\ snapshot' = Snapshot([lines |-> lines', partial |-> partial'])
    /\ appendLog' = Logged(appendLog, text)
    /\ produced' = produced \o Pushed(Buffer, text)
    /\ last' = "append"
    /\ UNCHANGED <<game, arbVars, screenSize, gameBox, ptySize, header, ptyVars, exited,
                   file, keyFocus, poll, promptPatterns>>

\* promptDetected = detectPrompt(output.snapshot(), args.promptPatterns) on its own
DetectCall ==
    /\ snapshot' = Snapshot(Buffer)
    /\ promptDetected' = DetectPrompt(snapshot', promptPatterns)
    /\ last' = "detect"
    /\ UNCHANGED <<bufVars, histVars, game, hookState, hookMtime, manualFocus, screenSize,
                   gameBox, ptySize, header, ptyVars, exited, file, keyFocus, poll,
                   promptPatterns>>

\* ptyProcess.onData
OnData(text, draws) ==
    /\ Running /\ ptyAlive
    /\ AppendOutput(text)
    /\ promptDetected' = DetectPrompt(Snapshot([lines |-> lines', partial |-> partial']),
                                      promptPatterns)
    /\ last' = "data"
    /\ ptyWrites' = <<>>
    /\ keyFocus' = "none"
    /\ UNCHANGED <<histVars, hookState, hookMtime, manualFocus, screenSize, ptyAlive,
                   exited, file, poll, promptPatterns>>
    /\ Render(game, promptDetected', hookState, manualFocus, draws)

\* "\n[copilot exited]\n"
ExitText ==
    <<LF, "[", "c", "o", "p", "i", "l", "o", "t", " ", "e", "x", "i", "t", "e", "d",
      "]", LF>>

\* ptyProcess.onExit
OnExit(draws) ==
    /\ Running /\ ptyAlive
    /\ ptyAlive' = FALSE
    /\ AppendOutput(ExitText)
    /\ last' = "exit"
    /\ ptyWrites' = <<>>
    /\ keyFocus' = "none"
    /\ UNCHANGED <<histVars, arbVars, screenSize, exited, file, poll, promptPatterns>>
    /\ Render(game, promptDetected, hookState, manualFocus, draws)

\* setInterval(() => { refreshHookState(); render(); }, 200)
TimerTick(draws) ==
    LET res == ReadHookState(file, hookMtime)
        rec == Reconcile(res, hookState, hookMtime)
    IN  /\ Running
        /\ hookState' = rec.hookState
        /\ hookMtime' = rec.hookMtime
        /\ poll' = [file |-> file, prev |-> hookMtime, was |-> hookState,
                    state |-> res.state, mtime |-> res.mtime, read |-> res.read,
                    lost |-> IF file.exists THEN poll.lost ELSE hookMtime,
                    cut |-> IF res.read /\ file.body = "garbage"
                                THEN Some(file.mtime) ELSE poll.cut]
        /\ last' = "tick"
        /\ ptyWrites' = <<>>
        /\ keyFocus' = "none"
        /\ UNCHANGED <<bufVars, histVars, promptDetected, manualFocus, screenSize,
                       ptyAlive, exited, file, promptPatterns>>
        /\ Render(game, promptDetected, hookState', manualFocus, draws)

\* screen.on("resize", render)
OnResize(size, draws) ==
    /\ Running
    /\ screenSize' = size
    /\ last' = "resize"
    /\ ptyWrites' = <<>>
    /\ keyFocus' = "none"
    /\ UNCHANGED <<bufVars, histVars, arbVars, ptyAlive, exited, file, poll,
                   promptPatterns>>
    /\ Render(game, promptDetected, hookState, manualFocus, draws)

\* NextOverride going round the other way
NextOverrideBackwards(mf) ==
    IF mf = "game" THEN "none" ELSE IF mf = "copilot" THEN "game" ELSE "copilot"

\* manualFocus === "game" ? "copilot" : manualFocus === "copilot" ? null : "game"
NextOverride(mf) ==
    IF mf = "game" THEN "copilot" ELSE IF mf = "copilot" THEN "none" ELSE "game"

\* screen.key(["C-g"])
ToggleFocus(draws) ==
    /\ Running
    /\ manualFocus' = NextOverride(manualFocus)
    /\ last' = "toggle"
    /\ ptyWrites' = <<>>
    /\ keyFocus' = "none"
    /\ UNCHANGED <<bufVars, histVars, promptDetected, hookState, hookMtime, screenSize,
                   ptyAlive, exited, file, poll, promptPatterns>>
    /\ Render(game, promptDetected, hookState, manualFocus', draws)

\* QuitSteps with the render surface released before the child is signalled
QuitStepsDestroyFirst == <<"destroy", "kill", "exit 0">>

\* ptyProcess.kill(); screen.destroy(); process.exit(0)
QuitSteps == <<"kill", "destroy", "exit 0">>

\* screen.key(["C-q"])
Quit ==
    /\ Running
    /\ exited' = QuitSteps
    /\ last' = "quit"
    /\ ptyWrites' = <<>>
    /\ keyFocus' = "none"
    /\ UNCHANGED <<bufVars, histVars, game, arbVars, uiVars, ptyAlive, file, poll,
                   promptPatterns>>

\* screen.on("keypress")
Keypress(key, draws) ==
    LET focus == FocusOf(manualFocus, promptDetected, hookState)
    IN  /\ Running
        /\ keyFocus' = focus
        /\ last' = "key"
        /\ UNCHANGED <<bufVars, histVars, arbVars, ptyAlive, exited, file, poll,
                       promptPatterns>>
        /\ IF focus = "game"
              THEN /\ ptyWrites' = <<>>
                   /\ IF IsGameKey(key)
                         THEN \E g \in GameKey(game, key, draws) :
                                /\ screenSize' = screenSize
                                /\ Render(g, promptDetected, hookState, manualFocus, draws)
                         ELSE UNCHANGED <<game, uiVars>>
              ELSE /\ ptyWrites' = SendToCopilot(key)
                   /\ UNCHANGED <<game, uiVars>>

\* The keystroke Ctrl+G. The screen emits "keypress" for every key and then
\* the key's own event, so the keypress handler runs on KeyCtrlG and the
\* C-g handler after it. KeyCtrlG is none of the game's keys: in game focus
\* the keypress handler returns.
PressCtrlG(draws) ==
    LET focus == FocusOf(manualFocus, promptDetected, hookState)
    IN  /\ Running
        /\ keyFocus' = focus
        /\ ptyWrites' = IF focus = "game" THEN <<>> ELSE SendToCopilot(KeyCtrlG)
        /\ manualFocus' = NextOverride(manualFocus)
        /\ last' = "C-g"
        /\ UNCHANGED <<bufVars, histVars, promptDetected, hookState, hookMtime,
                       screenSize, ptyAlive, exited, file, poll, promptPatterns>>
        /\ Render(game, promptDetected, hookState, manualFocus', draws)

\* The keystroke Ctrl+Q: the keypress handler on KeyCtrlQ, then the C-q
\* handler.
PressCtrlQ ==
    LET focus == FocusOf(manualFocus, promptDetected, hookState)
    IN  /\ Running
        /\ keyFocus' = focus
        /\ ptyWrites' = IF focus = "game" THEN <<>> ELSE SendToCopilot(KeyCtrlQ)
        /\ exited' = QuitSteps
        /\ last' = "C-q"
        /\ UNCHANGED <<bufVars, histVars, game, arbVars, uiVars, ptyAlive, file, poll,
                       promptPatterns>>

\* game.move(dx, dy), game.reset() and game.resize(width, height), each called
\* on its own
MoveCall(dx, dy, draws) ==
    /\ game' \in GameMove(game, dx, dy, draws)
    /\ last' = "move"
    /\ UNCHANGED <<bufVars, histVars, arbVars, uiVars, ptyVars, exited, file, keyFocus,
                   poll, promptPatterns>>

ResetCall(draws) ==
    /\ game' \in GameReset(game, draws)
    /\ last' = "reset"
    /\ UNCHANGED <<bufVars, histVars, arbVars, uiVars, ptyVars, exited, file, keyFocus,
                   poll, promptPatterns>>

ResizeCall(width, height, draws) ==
    /\ game' \in GameResize(game, width, height, draws)
    /\ last' = "gresize"
    /\ UNCHANGED <<bufVars, histVars, arbVars, uiVars, ptyVars, exited, file, keyFocus,
                   poll, promptPatterns>>

(***************************************************************************)
(* The hook state file's writers                                           *)
(***************************************************************************)
\* The hook script, or anything else, writes the file: body at time m.
WriteHook(body, m) ==
    /\ file' = [exists |-> TRUE, mtime |-> m, body |-> body,
                readable |-> file.readable]
    /\ UNCHANGED <<bufVars, histVars, game, arbVars, uiVars, ptyVars, exited, last,
                   keyFocus, poll, promptPatterns>>

DeleteHook ==
    /\ file.exists
    /\ file' = Absent
    /\ UNCHANGED <<bufVars, histVars, game, arbVars, uiVars, ptyVars, exited, last,
                   keyFocus, poll, promptPatterns>>

\* The file's permissions change: it becomes unreadable, or readable again.
ChmodHook ==
    /\ file.exists
    /\ file' = [file EXCEPT !.readable = ~file.readable]
    /\ UNCHANGED <<bufVars, histVars, game, arbVars, uiVars, ptyVars, exited, last,
                   keyFocus, poll, promptPatterns>>

(***************************************************************************)
(* The state after start-up                                                *)
(***************************************************************************)
Size(w, h) == [width |-> w, height |-> h]

\* new OutputBuffer()
NewBuffer == [lines |-> <<>>, partial |-> <<>>]

\* The module's top level up to the first render(): the buffer and the game are
\* constructed, game.reset() places the target, refreshHookState() polls the
\* file once and render() lays the panes out.
InitWith(buffers, files, sizes, draws, patterns) ==
    /\ \E buf \in buffers : lines = buf.lines /\ partial = buf.partial
    /\ snapshot = Snapshot(Buffer)
    /\ promptPatterns \in patterns
    /\ promptDetected = FALSE
    /\ manualFocus = "none"
    /\ file \in files
    /\ LET res == ReadHookState(file, Null)
           rec == Reconcile(res, "unknown", Null)
       IN  /\ hookState = rec.hookState
           /\ hookMtime = rec.hookMtime
           /\ poll = [file |-> file, prev |-> Null, was |-> "unknown",
                      state |-> res.state, mtime |-> res.mtime, read |-> res.read,
                      lost |-> Null,
                      cut |-> IF res.read /\ file.body = "garbage"
                                  THEN Some(file.mtime) ELSE Null]
    /\ screenSize \in sizes
    /\ gameBox = LayoutGameBox(screenSize)
    /\ ptySize = LayoutPty(screenSize)
    /\ \E g \in GameReset(NewGame, draws) : game \in RenderGame(g, gameBox, draws)
    /\ header = HeaderOf(manualFocus, promptDetected, hookState, game)
    /\ ptyWrites = <<>>
    /\ ptyAlive = TRUE
    /\ exited = <<>>
    /\ last = "init"
    /\ keyFocus = "none"
    /\ appendLog = [from |-> Buffer, texts |-> <<>>]
    /\ produced = lines

(***************************************************************************)
(* The wrapper and the hook file                                           *)
(***************************************************************************)
\* Modification times run from 1 to MaxMtime.
MaxMtime == 2

\* The buffer of the wrapper specification holds at most MaxOut lines and at
\* most MaxOut characters in its partial line.
MaxOut == 1

\* The sample of Math.random that placeTarget accepts
Draws == {Cell(0, 0)}

\* An 80x24 terminal and a 100x24 one
Sizes == {Size(80, 24), Size(100, 24)}

\* The output of the driven process arrives in these chunks.
DataChunks == {<<">">>, <<LF>>}

Keys == {KeyEnter, KeyX, KeyR}

\* The states copilot-hook.sh is run with
HookStates == {"busy", "idle"}

\* The hook file is not there at start-up, or an earlier run has left it.
StartFiles ==
    {Absent, [exists |-> TRUE, mtime |-> 1, body |-> "idle", readable |-> TRUE]}

Init == InitWith({NewBuffer}, StartFiles, {Size(80, 24)}, Draws, {DEFAULT_PROMPTS})

\* copilot-hook.sh writes the file; the clock that gives the modification time
\* moves on between two writes.
HookScript ==
    \E body \in HookStates, m \in 1..MaxMtime :
        /\ Running
        /\ m > file.mtime
        /\ WriteHook(body, m)

\* The wrapper's events and the hook script
Next ==
    \/ \E c \in DataChunks :
          /\ IF c = <<LF>> THEN Len(lines) < MaxOut ELSE Len(partial) < MaxOut
          /\ OnData(c, Draws)
    \/ OnExit(Draws)
    \/ TimerTick(Draws)
    \/ \E size \in Sizes : OnResize(size, Draws)
    \/ ToggleFocus(Draws)
    \/ \E key \in Keys : Keypress(key, Draws)
    \/ Quit
    \/ HookScript

Spec == Init /\ [][Next]_vars

(***************************************************************************)
(* The hook file under every writer                                        *)
(***************************************************************************)
Files ==
    {Absent} \cup {[exists |-> TRUE, mtime |-> m, body |-> b, readable |-> r] :
                      m \in 1..MaxMtime, b \in Bodies, r \in BOOLEAN}

InitHook == InitWith({NewBuffer}, Files, {Size(80, 24)}, Draws, {DEFAULT_PROMPTS})

\* Anything writes the file: any content, at the clock's time or, when the file
\* is created, with any modification time (a restored copy keeps its own).
WriteAny ==
    \E body \in Bodies, m \in 1..MaxMtime :
        /\ m >= file.mtime
        /\ WriteHook(body, m)

NextHook ==
    \/ TimerTick(Draws)
    \/ WriteAny
    \/ DeleteHook
    \/ ChmodHook

SpecHook == InitHook /\ [][NextHook]_vars

(***************************************************************************)
(* The hook script's write in two steps                                    *)
(***************************************************************************)
\* The hook script's writes have modification times from 1 to MaxClock.
MaxClock == 3

\* printf ... > "$STATE_FILE", first step: the shell opens the file for the
\* redirection, creating or truncating it; the file is empty. The clock has
\* moved on since the file was last written.
Truncated(f) ==
    IF f.exists /\ f.body = "garbage" THEN {}
    ELSE {[exists |-> TRUE, mtime |-> m, body |-> "garbage", readable |-> f.readable] :
            m \in {t \in 1..MaxClock : t > f.mtime}}

\* Second step: printf writes the state into the open file.
Printed(f) ==
    IF ~(f.exists /\ f.body = "garbage") THEN {}
    ELSE {[exists |-> TRUE, mtime |-> m, body |-> body, readable |-> f.readable] :
            m \in {t \in 1..MaxClock : t >= f.mtime}, body \in HookStates}

HookTruncate ==
    /\ Running
    /\ file' \in Truncated(file)
    /\ UNCHANGED <<bufVars, histVars, game, arbVars, uiVars, ptyVars, exited, last,
                   keyFocus, poll, promptPatterns>>

HookPrintf ==
    /\ Running
    /\ file' \in Printed(file)
    /\ UNCHANGED <<bufVars, histVars, game, arbVars, uiVars, ptyVars, exited, last,
                   keyFocus, poll, promptPatterns>>

\* The timer's handler with a step of the hook script between its
\* fs.statSync and its fs.readFileSync; poll.file is the file as the call saw
\* it: the modification time of the first and, when the call went on to read,
\* the content of the second.
TimerTickAcross(draws) ==
    \E g \in Truncated(file) \cup Printed(file) :
        LET res == ReadHookStateAcross(file, g, hookMtime)
            rec == Reconcile(res, hookState, hookMtime)
            seen == IF file.exists /\ Some(file.mtime) # hookMtime
                        THEN [g EXCEPT !.mtime = file.mtime]
                        ELSE file
        IN  /\ Running
            /\ file' = g
            /\ hookState' = rec.hookState
            /\ hookMtime' = rec.hookMtime
            /\ poll' = [file |-> seen, prev |-> hookMtime, was |-> hookState,
                        state |-> res.state, mtime |-> res.mtime, read |-> res.read,
                        lost |-> IF file.exists THEN poll.lost ELSE hookMtime,
                        cut |-> IF res.read /\ g.body = "garbage"
                                    THEN Some(file.mtime) ELSE poll.cut]
            /\ last' = "tick"
            /\ ptyWrites' = <<>>
            /\ keyFocus' = "none"
            /\ UNCHANGED <<bufVars, histVars, promptDetected, manualFocus, screenSize,
                           ptyAlive, exited, promptPatterns>>
            /\ Render(game, promptDetected, hookState', manualFocus, draws)

\* The hook file is not there at start-up, or an earlier run has left it
\* with either state.
RewriteStartFiles ==
    {Absent} \cup {[exists |-> TRUE, mtime |-> 1, body |-> b, readable |-> TRUE] :
                      b \in HookStates}

InitRewrite ==
    InitWith({NewBuffer}, RewriteStartFiles, {Size(80, 24)}, Draws, {DEFAULT_PROMPTS})

NextRewrite ==
    \/ TimerTick(Draws)
    \/ TimerTickAcross(Draws)
    \/ HookTruncate
    \/ HookPrintf

SpecRewrite == InitRewrite /\ [][NextRewrite]_vars

(***************************************************************************)
(* The output buffer on its own                                            *)
(***************************************************************************)
\* All texts of at most n characters of the set chars
Texts(chars, n) == UNION {[1..k -> chars] : k \in 0..n}

\* Chunks are of at most MaxChunkLen characters, or one of LongChunks.
MaxChunkLen == 2

BufferChars == {ESC, "[", "0", "m", CR, LF}

LongChunks ==
    { <<ESC, "[", "0", ";", "1", "m">>,
      <<"m", LF, "0", LF, "[">>,
      <<LF, ESC, "[", "m", LF, "m">> }

Chunks == Texts(BufferChars, MaxChunkLen) \cup LongChunks

\* Buffers in which an append call can start
StartBuffers ==
    { NewBuffer,
      [lines |-> <<>>, partial |-> <<"m">>],
      [lines |-> << <<"m">> >>, partial |-> <<ESC>>],
      [lines |-> << <<>>, <<"0">> >>, partial |-> <<ESC, "[">>] }

InitBuffer ==
    InitWith(StartBuffers, {Absent}, {Size(80, 24)}, Draws, {DEFAULT_PROMPTS})

\* Two append calls, with any two chunks
NextBuffer ==
    \E text \in Chunks : Len(appendLog.texts) < 2 /\ BufferCall(text)

SpecBuffer == InitBuffer /\ [][NextBuffer]_vars

(***************************************************************************)
(* The output buffer at its capacity                                       *)
(***************************************************************************)
\* The driven process prints up to MaxProduced lines.
MaxProduced == 2003

\* The k-th line printed
CapLine(k) == << <<"a", "b", "c">>[(k % 3) + 1] >>

\* The lines n+1 .. n+count, each with its newline
RECURSIVE CapText(_, _)
CapText(n, count) ==
    IF count = 0 THEN <<>> ELSE CapLine(n + 1) \o <<LF>> \o CapText(n + 1, count - 1)

InitCap == InitWith({NewBuffer}, {Absent}, {Size(80, 24)}, Draws, {DEFAULT_PROMPTS})

\* The lines arrive one or three to a chunk, or a line arrives coloured and
\* with a carriage return, or in two chunks: its text, then its newline
\* together with the next line.
NextCap ==
    /\ Len(produced) < MaxProduced
    /\ LET n == Len(produced)
       IN  \/ \E count \in {1, 3} : partial = <<>> /\ BufferCall(CapText(n, count))
           \/ /\ partial = <<>>
              /\ BufferCall(<<ESC, "[", "0", "m">> \o CapLine(n + 1) \o <<CR, LF>>)
           \/ partial = <<>> /\ BufferCall(CapLine(n + 1))
           \/ partial # <<>> /\ BufferCall(<<LF>> \o CapText(n + 1, 1))

SpecCap == InitCap /\ [][NextCap]_vars

(***************************************************************************)
(* detectPrompt on its own                                                 *)
(***************************************************************************)
\* detectPrompt is given at most MaxDetectLines lines.
MaxDetectLines == 3

CopilotPrompt == <<"c", "o", "p", "i", "l", "o", "t", ">">>

HelloWorld == <<"h", "e", "l", "l", "o", " ", "w", "o", "r", "l", "d">>

DetectLines ==
    { <<>>, <<" ">>, <<" ", " ">>, <<"TAB">>,
      <<">">>, <<">", " ">>, <<" ", ">">>, <<">", " ", " ">>, <<">", ">">>, <<"x", ">">>,
      CopilotPrompt, CopilotPrompt \o <<" ">>, <<"U276F">>, HelloWorld }

DetectInputs == UNION {[1..k -> DetectLines] : k \in 0..MaxDetectLines}

\* No --prompt-regex, --prompt-regex x, and no pattern at all
PatternSets == {DEFAULT_PROMPTS, Append(DEFAULT_PROMPTS, Contains(<<"x">>)), <<>>}

InitDetect ==
    InitWith({[lines |-> ls, partial |-> <<>>] : ls \in DetectInputs},
             {Absent}, {Size(80, 24)}, Draws, PatternSets)

NextDetect == DetectCall

SpecDetect == InitDetect /\ [][NextDetect]_vars

(***************************************************************************)
(* The wrapper with the game in play                                       *)
(***************************************************************************)
\* The score is followed up to MaxScore.
MaxScore == 2

\* The samples of Math.random that placeTarget accepts
PlayDraws == {Cell(0, 0), Cell(1, 0), Cell(4, 4)}

\* An 80x24 terminal, whose game pane has room for four grid rows only, and
\* two terminals whose panes hold a 5x5 and a 6x6 grid
PlaySizes == {Size(80, 24), Size(7, 27), Size(8, 30)}

PlayKeys ==
    { KeyUp, KeyDown, KeyLeft, KeyRight, KeyW, KeyUpperS, KeyUpperA, KeyD, KeyR,
      KeyUpperR, KeyX, KeyEnter, KeyBackspace, KeyF1, KeyChOnly, KeyNone }

InitPlay ==
    InitWith({NewBuffer}, {Absent}, {Size(80, 24), Size(7, 27)}, PlayDraws,
             {DEFAULT_PROMPTS})

NextPlay ==
    \/ \E key \in PlayKeys : Keypress(key, PlayDraws) /\ game'.score <= MaxScore
    \/ \E size \in PlaySizes : OnResize(size, PlayDraws)
    \/ TimerTick(PlayDraws)
    \/ PressCtrlG(PlayDraws)
    \/ PressCtrlQ

SpecPlay == InitPlay /\ [][NextPlay]_vars

(***************************************************************************)
(* The Game class on its own                                               *)
(***************************************************************************)
\* The samples of Math.random that placeTarget accepts: cells in the corners,
\* at the walls and inside every grid, the centre of the 10x6 grid among them
GameDraws == {Cell(x, y) : x \in {0, 2, 4, 5, 9}, y \in {0, 3, 5}}

\* The arguments resize is called with; those below 5 are raised to 5.
ResizeWidths == {3, 5, 6, 10}
ResizeHeights == {0, 5, 6}

\* The steps move is called with
Steps == {<<1, 0>>, <<-1, 0>>, <<0, 1>>, <<0, -1>>}

InitGame ==
    InitWith({NewBuffer}, {Absent}, {Size(80, 24)}, GameDraws, {DEFAULT_PROMPTS})

NextGame ==
    \/ \E d \in Steps : MoveCall(d[1], d[2], GameDraws) /\ game'.score <= MaxScore
    \/ ResetCall(GameDraws)
    \/ \E w \in ResizeWidths, h \in ResizeHeights : ResizeCall(w, h, GameDraws)

SpecGame == InitGame /\ [][NextGame]_vars

(***************************************************************************)
(* The output buffer under a stream of redraws                             *)
(***************************************************************************)
\* The stream is followed until the pending partial line is MaxStream
\* characters long.
MaxStream == 6

\* A progress display redrawn in place: text without a newline, text after a
\* carriage return, text after an erase-line sequence; and a line's end.
StreamChunks ==
    { <<"x">>, <<CR, "x", "x">>, <<ESC, "[", "2", "K", "x">>, <<"x", LF>> }

InitStream == InitWith({NewBuffer}, {Absent}, {Size(80, 24)}, Draws, {DEFAULT_PROMPTS})

NextStream ==
    \E text \in StreamChunks :
        /\ Len(partial) + Len(Clean(text)) <= MaxStream
        /\ NewLines(text) > 0 => Len(lines) < MaxOut
        /\ BufferCall(text)

SpecStream == InitStream /\ [][NextStream]_vars

(***************************************************************************)
(* Output buffer: claims                                                   *)
(***************************************************************************)
\* C3: the completed lines are the most recent min(n, 2000) of the n lines
\* pushed so far, in arrival order; never more than 2000.
C3_MostRecentLines ==
    LET n == Len(produced)
        m == Len(lines)
    IN  /\ m <= 2000
        /\ m = (IF n < 2000 THEN n ELSE 2000)
        /\ \A i \in 1..m : lines[i] = produced[n - m + i]

\* More than 2000 lines have been pushed and the buffer holds 2000.
C3_Witness == last = "append" /\ Len(produced) > 2000 /\ Len(lines) = 2000

\* C4: append(A) then append(B) leaves the same completed lines as one
\* append(A + B) from the same buffer, wherever the chunk boundary falls.
C4_ChunkBoundaryInvariant ==
    Len(appendLog.texts) = 2 =>
        BufferAppend(appendLog.from, appendLog.texts[1] \o appendLog.texts[2]).lines
            = lines

\* The lines ls, each followed by a newline
RECURSIVE Unsplit(_)
Unsplit(ls) == IF ls = <<>> THEN <<>> ELSE Head(ls) \o <<LF>> \o Unsplit(Tail(ls))

\* C5: an append whose cleaned chunk has no newline leaves the lines alone and
\* adds the chunk to the partial; one with k >= 1 newlines adds exactly k lines,
\* the old partial with the first segment and then the interior segments, and
\* makes the trailing segment the partial: the added lines, each with its
\* newline, and the new partial spell the old partial and the cleaned chunk.
\* snapshot() is the lines, followed by the partial when it is not empty.
C5_AppendContract ==
    /\ snapshot = lines \o (IF partial = <<>> THEN <<>> ELSE <<partial>>)
    /\ appendLog.texts # <<>> =>
          LET before == BeforeLast(appendLog)
              cleaned == Clean(appendLog.texts[Len(appendLog.texts)])
              k == NewLines(cleaned)
              old == Len(before.lines)
          IN  /\ k = 0 => lines = before.lines /\ partial = before.partial \o cleaned
              /\ k >= 1 =>
                    /\ Len(lines) = old + k
                    /\ SubSeq(lines, 1, old) = before.lines
                    /\ Unsplit(SubSeq(lines, old + 1, old + k)) \o partial
                          = before.partial \o cleaned
                    /\ \A i \in (old + 1)..(old + k) : NewLines(lines[i]) = 0
                    /\ NewLines(partial) = 0

\* An append on a pending partial has pushed two lines, the partial with the
\* first segment and then an interior segment, and left a new partial.
C5_Witness ==
    /\ last = "append" /\ appendLog.texts # <<>>
    /\ BeforeLast(appendLog).partial # <<>>
    /\ NewLines(Clean(appendLog.texts[Len(appendLog.texts)])) = 2
    /\ lines # <<>> /\ lines[Len(lines)] = <<"0">>
    /\ partial # <<>>
    /\ snapshot = Append(lines, partial)

(***************************************************************************)
(* detectPrompt: claims                                                    *)
(***************************************************************************)
Blank(line) == \A j \in 1..Len(line) : IsSpace(line[j])

\* C6: detectPrompt is true exactly when there is a line that is not blank
\* and the last such line, trimmed, matches one of the patterns; the lines
\* before it do not count.
C6_LastNonBlankLine ==
    last = "detect" =>
        LET nonBlank == {i \in 1..Len(snapshot) : ~Blank(snapshot[i])}
        IN  /\ promptDetected =
                  ( /\ nonBlank # {}
                    /\ LET i == CHOOSE i \in nonBlank : \A j \in nonBlank : j <= i
                       IN  \E k \in 1..Len(promptPatterns) :
                              Test(promptPatterns[k], Trim(snapshot[i])) )
            /\ ( /\ snapshot = << <<>>, <<" ", " ">>, CopilotPrompt \o <<" ">> >>
                  /\ promptPatterns = DEFAULT_PROMPTS ) => promptDetected
            /\ (snapshot = <<HelloWorld>> /\ promptPatterns = DEFAULT_PROMPTS)
                  => ~promptDetected
            /\ snapshot = <<>> => ~promptDetected

\* A prompt, then a later line that is neither blank nor a prompt, then a
\* blank line: not detected.
C6_Witness ==
    /\ last = "detect" /\ promptPatterns = DEFAULT_PROMPTS
    /\ snapshot = << <<">", " ">>, HelloWorld, <<" ">> >>
    /\ ~promptDetected

(***************************************************************************)
(* Focus arbitration                                                       *)
(***************************************************************************)
\* C1: the focus and status drawn by the last render, and the focus the
\* keypress handler routes by, are those of the current inputs: the override
\* when it is set, else copilot when waiting and game when not; PAUSED exactly
\* when waiting, whatever the override. Waiting is promptDetected or
\* hookState = idle.
C1_FocusAndStatus ==
    LET waiting == promptDetected \/ hookState = "idle"
        focus == CASE manualFocus = "game" -> "game"
                   [] manualFocus = "copilot" -> "copilot"
                   [] manualFocus = "none" /\ waiting -> "copilot"
                   [] manualFocus = "none" /\ ~waiting -> "game"
    IN  /\ header.focus = focus
        /\ header.status = (IF waiting THEN "PAUSED" ELSE "RUNNING")
        /\ last = "key" => keyFocus = focus
        /\ (manualFocus = "none" /\ ~promptDetected /\ hookState = "busy")
              => header.focus = "game" /\ header.status = "RUNNING"
        /\ (manualFocus = "none" /\ promptDetected /\ hookState = "busy")
              => header.focus = "copilot" /\ header.status = "PAUSED"

\* A data event alone has set promptDetected, with no override and a busy hook,
\* and the header shows copilot and PAUSED.
C1_Witness ==
    /\ last = "data" /\ promptDetected /\ hookState = "busy" /\ manualFocus = "none"
    /\ header.focus = "copilot" /\ header.status = "PAUSED"

\* C2: the override changes only in the toggle handler, and every toggle moves
\* it one step along none -> game -> copilot -> none, so that three toggles
\* bring it back.
C2_OverrideCycle ==
    /\ [][manualFocus' # manualFocus => last' = "toggle"]_vars
    /\ [][ToggleFocus(Draws) =>
            \/ manualFocus = "none" /\ manualFocus' = "game"
            \/ manualFocus = "game" /\ manualFocus' = "copilot"
            \/ manualFocus = "copilot" /\ manualFocus' = "none"]_vars
    /\ [](NextOverride(NextOverride(NextOverride(manualFocus))) = manualFocus)

\* The toggle handler has run and the override is back at none.
C2_Witness == last = "toggle" /\ manualFocus = "none"

(***************************************************************************)
(* Hook state                                                              *)
(***************************************************************************)
ValidFile(f) == f.exists /\ f.readable /\ f.body \in {"busy", "idle"}

\* C7: with the hook script as the only writer, a poll that finds a new
\* modification time returns the written state with that time; a poll that
\* finds the stored time returns (unknown, that time) and the arbiter keeps
\* its hookState; after either, hookState is the state in the file.
C7_PollFollowsFile ==
    ValidFile(poll.file) =>
        /\ poll.prev # Some(poll.file.mtime)
              => poll.state = poll.file.body /\ poll.mtime = Some(poll.file.mtime)
        /\ poll.prev = Some(poll.file.mtime)
              => /\ poll.state = "unknown" /\ poll.mtime = poll.prev
                 /\ hookState = poll.was
        /\ hookState = poll.file.body
        /\ hookMtime = Some(poll.file.mtime)

\* The file has been rewritten, read, and polled again unchanged: the reader
\* returned the sentinel and the arbiter still holds idle.
C7_Witness ==
    /\ last = "tick" /\ ValidFile(poll.file) /\ poll.file.mtime > 1
    /\ poll.prev = Some(poll.file.mtime) /\ poll.state = "unknown"
    /\ poll.file.body = "idle" /\ hookState = "idle"

\* C8: a poll that finds the file missing returns (unknown, null) and leaves
\* hookState unknown and no stored time; a poll that starts with no stored
\* time on a valid file reads it and takes its state and time.
C8_MissingResets ==
    /\ ~poll.file.exists
          => /\ poll.state = "unknown" /\ poll.mtime = Null
             /\ hookState = "unknown" /\ hookMtime = Null
    /\ (poll.prev = Null /\ ValidFile(poll.file))
          => /\ poll.read
             /\ hookState = poll.file.body /\ hookMtime = Some(poll.file.mtime)

\* A poll found the file missing and dropped a stored time; the file then came
\* back with that very time, and the poll read it.
C8_Witness ==
    /\ last = "tick" /\ ValidFile(poll.file) /\ poll.prev = Null
    /\ poll.lost = Some(poll.file.mtime)
    /\ poll.read /\ hookState = poll.file.body

\* The timer's last poll found the file missing, or went on to read it and
\* found it unreadable or malformed.
PollFoundError ==
    /\ last = "tick"
    /\ \/ ~poll.file.exists
       \/ /\ poll.file.exists
          /\ poll.prev # Some(poll.file.mtime)
          /\ ~poll.file.readable \/ poll.file.body \in {"other", "garbage"}

\* C9: after a poll that finds the hook file missing, unreadable or malformed,
\* hookState is unknown, whatever it was before.
C9_ErrorsDegradeToUnknown == PollFoundError => hookState = "unknown"

\* C10: after a poll that reads a file that does not parse or has no recognized
\* state, hookState is unknown and the stored time is the file's.
C10_BadFileAdvancesMtime ==
    ( /\ last = "tick"
      /\ poll.file.exists /\ poll.file.readable
      /\ poll.file.body \in {"other", "garbage"}
      /\ poll.prev # Some(poll.file.mtime) )
        => hookState = "unknown" /\ hookMtime = Some(poll.file.mtime)

(***************************************************************************)
(* Input routing                                                           *)
(***************************************************************************)
\* C11: a keystroke handled while the focus is the driven process results in
\* exactly one write to it, whatever the key event carries.
C11_ExactlyOneWrite ==
    (last = "key" /\ keyFocus = "copilot") => Len(ptyWrites) = 1

\* The direction the claim gives a key: arrows and WASD in either case
DirectionOf(key) ==
    IF key.name = "up" \/ key.ch \in {<<"w">>, <<"W">>} THEN <<0, -1>>
    ELSE IF key.name = "down" \/ key.ch \in {<<"s">>, <<"S">>} THEN <<0, 1>>
    ELSE IF key.name = "left" \/ key.ch \in {<<"a">>, <<"A">>} THEN <<-1, 0>>
    ELSE IF key.name = "right" \/ key.ch \in {<<"d">>, <<"D">>} THEN <<1, 0>>
    ELSE <<0, 0>>

\* v brought into lo..hi
Clamp(v, lo, hi) == IF v < lo THEN lo ELSE IF v > hi THEN hi ELSE v

\* C12: in game focus a keystroke writes nothing to the driven process and
\* leaves the buffer, the hook state and the override alone; an arrow or WASD
\* key moves the player one cell in its direction, kept inside the grid, r or
\* R resets the game, and any other key leaves the game as it is. In
\* driven-process focus no keystroke changes the game.
C12_GameFocusFrame ==
    [][\A key \in PlayKeys :
          (last' = "key" /\ Keypress(key, PlayDraws)) =>
              LET waiting == promptDetected \/ hookState = "idle"
                  focus == IF manualFocus # "none" THEN manualFocus
                           ELSE IF waiting THEN "copilot" ELSE "game"
                  d == DirectionOf(key)
                  reset == key.ch \in {<<"r">>, <<"R">>}
              IN  /\ focus = "game" =>
                        /\ ptyWrites' = <<>>
                        /\ UNCHANGED <<lines, partial, hookState, hookMtime,
                                       manualFocus, promptDetected>>
                        /\ d # <<0, 0>> =>
                              /\ game'.player.x
                                    = Clamp(game.player.x + d[1], 0, game.width - 1)
                              /\ game'.player.y
                                    = Clamp(game.player.y + d[2], 0, game.height - 1)
                              /\ game'.width = game.width
                              /\ game'.height = game.height
                        /\ (d = <<0, 0>> /\ reset) =>
                              /\ game'.score = 0
                              /\ game'.player
                                    = Cell(game.width \div 2, game.height \div 2)
                        /\ (d = <<0, 0>> /\ ~reset) => game' = game
                  /\ focus = "copilot" => game' = game]_vars

\* A key handled in game focus has moved the player one cell to the left of
\* the centre of the 10x6 grid, and nothing was written.
C12_Witness ==
    /\ last = "key" /\ keyFocus = "game" /\ ptyWrites = <<>>
    /\ game.width = 10 /\ game.player = Cell(4, 3)

\* C13: the keystrokes Ctrl+G and Ctrl+Q cause no write to the driven process
\* and do not move the player or change the score or the grid, in any focus.
C13_ToggleQuitNotRouted ==
    [][(PressCtrlG(PlayDraws) \/ PressCtrlQ) =>
          /\ ptyWrites' = <<>>
          /\ game'.player = game.player
          /\ game'.score = game.score
          /\ game'.width = game.width /\ game'.height = game.height]_vars

\* C14: the quit handler signals the child, releases the screen and exits
\* with code 0, in this order and in one step, without waiting for the child to
\* end; no handler runs between these steps or after the exit.
C14_QuitInOrder ==
    /\ [](exited = <<>> \/ (exited = <<"kill", "destroy", "exit 0">> /\ last = "quit"))
    /\ [][exited' # exited => Quit /\ exited = <<>> /\ ptyAlive' = ptyAlive]_vars
    /\ [][exited # <<>> =>
            UNCHANGED <<lines, partial, game, promptDetected, hookState, hookMtime,
                        manualFocus, ptyWrites, ptyAlive, snapshot, header, last>>]_vars

\* The wrapper has exited while the driven process is still alive.
C14_Witness == exited = <<"kill", "destroy", "exit 0">> /\ last = "quit" /\ ptyAlive

(***************************************************************************)
(* The game in the wrapper                                                 *)
(***************************************************************************)
\* C17 as stated: the score never decreases, over movement keys, the reset
\* key and the resize on re-render.
C17_ScoreNeverDecreases == [][game'.score >= game.score]_vars

\* C17, amended: the score decreases only when the reset key is handled in
\* game focus, which sets it to 0; over every other step, movement keys and
\* the resize on re-render among them, it never decreases.
C17_ScoreDecreasesOnlyOnReset ==
    [][game'.score < game.score =>
          /\ \E key \in {KeyR, KeyUpperR} : Keypress(key, PlayDraws)
          /\ keyFocus' = "game"
          /\ game'.score = 0]_vars

\* A terminal resize has re-rendered and resized the grid, and the two points
\* scored before it are still there.
C17_Witness == last = "resize" /\ game.score = 2 /\ game.width = 5

\* C19: the promptDetected that focus is computed from is prompt detection
\* applied to the buffer's current snapshot, after every handler.
C19_PromptMatchesBuffer ==
    promptDetected = DetectPrompt(Snapshot(Buffer), promptPatterns)

\* C20: after a re-render the grid is the pane's interior brought into the
\* bounds: width = clamp(pane width - 2, 5, 30), height = clamp(pane height - 4,
\* 5, 12).
C20_GridFitsPane ==
    last \in {"data", "exit", "tick", "resize", "C-g"} =>
        /\ game.width = Clamp(gameBox.width - 2, 5, 30)
        /\ game.height = Clamp(gameBox.height - 4, 5, 12)

(***************************************************************************)
(* The Game class: claims                                                  *)
(***************************************************************************)
\* The games after n calls of move(1, 0) from g
RECURSIVE MovedRight(_, _)
MovedRight(g, n) ==
    IF n = 0 THEN {g}
    ELSE UNION {MovedRight(h, n - 1) : h \in GameMove(g, 1, 0, PlayDraws)}

\* C15: after every move, reset and resize, with any arguments, the player is
\* inside the grid: 0 <= x <= width - 1 and 0 <= y <= height - 1; and width
\* moves to the right from there end at x = width - 1.
C15_PlayerInsideGrid ==
    /\ 0 <= game.player.x /\ game.player.x <= game.width - 1
    /\ 0 <= game.player.y /\ game.player.y <= game.height - 1
    /\ \A g \in MovedRight(game, game.width) : g.player.x = game.width - 1

\* A resize has left a 5x5 grid with the player in its far corner, where the
\* clamp puts a player that was beyond both walls.
C15_Witness ==
    /\ last = "gresize" /\ game.width = 5 /\ game.height = 5
    /\ game.player = Cell(4, 4)

\* C16: after the initial reset and after every move, reset and resize the
\* target is inside the grid and not on the player's cell.
C16_TargetApartFromPlayer ==
    /\ 0 <= game.target.x /\ game.target.x <= game.width - 1
    /\ 0 <= game.target.y /\ game.target.y <= game.height - 1
    /\ game.target # game.player

\* A move has captured the target, which was placed again, in a corner the
\* player is not in.
C16_Witness ==
    /\ last = "move" /\ game.score = 1
    /\ game.target = Cell(0, 0) /\ game.player # Cell(0, 0)

\* C18: a move adds 1 to the score when the cell it leaves the player on is the
\* target's, and 0 otherwise; a resize adds 0; no operation adds more than 1.
C18_OnePointPerCapture ==
    [][/\ last' = "move" =>
             \A d \in Steps :
                 game' \in GameMove(game, d[1], d[2], GameDraws) =>
                     LET x == Clamp(game.player.x + d[1], 0, game.width - 1)
                         y == Clamp(game.player.y + d[2], 0, game.height - 1)
                     IN  game'.score
                            = game.score + (IF Cell(x, y) = game.target THEN 1 ELSE 0)
       /\ last' = "gresize" => game'.score = game.score
       /\ game'.score <= game.score + 1]_vars

\* Two moves have captured the target, one point each.
C18_Witness == last = "move" /\ game.score = 2

(***************************************************************************)
(* Output buffer: retained content                                         *)
(***************************************************************************)
\* The characters the buffer retains: those of the completed lines and of the
\* pending partial line
RECURSIVE TotalLength(_)
TotalLength(ls) == IF ls = <<>> THEN 0 ELSE Len(Head(ls)) + TotalLength(Tail(ls))

RetainedSize(buf) == TotalLength(buf.lines) + Len(buf.partial)

\* A limit on the retained characters, below what the stream delivers
RetainedLimit == 4

\* C21: there is a fixed bound that the size of the completed lines and the
\* pending partial line never exceeds, whatever the stream; stated for the
\* bound RetainedLimit.
C21_RetainedContentBounded == RetainedSize(Buffer) <= RetainedLimit

(***************************************************************************)
(* The header between handlers                                             *)
(***************************************************************************)
\* C22: between handlers the header shows the focus and status of the current
\* promptDetected, hookState and override; a handler that changes one of the
\* three draws the header anew, one that draws no header changes none of
\* them; and a keystroke is routed by the focus the header showed when it
\* was pressed.
C22_HeaderIsCurrent ==
    /\ [](LET waiting == promptDetected \/ hookState = "idle"
          IN  /\ header.focus = (IF manualFocus = "none"
                                    THEN (IF waiting THEN "copilot" ELSE "game")
                                    ELSE manualFocus)
              /\ header.status = (IF waiting THEN "PAUSED" ELSE "RUNNING"))
    /\ [][<<promptDetected, hookState, manualFocus>>'
             # <<promptDetected, hookState, manualFocus>>
            => last' \in {"data", "tick", "toggle"}]_vars
    /\ [][last' = "key" => keyFocus' = header.focus]_vars

\* Data brought the prompt while the hook said busy; the header moved to the
\* driven process, and the keystroke that followed was routed there.
C22_Witness ==
    /\ last = "key" /\ keyFocus = "copilot" /\ header.focus = "copilot"
    /\ promptDetected /\ hookState = "busy" /\ manualFocus = "none"
    /\ Len(ptyWrites) = 1

(***************************************************************************)
(* Re-rendering and the game                                               *)
(***************************************************************************)
\* C23: a re-render with the terminal size unchanged, on a timer tick or a
\* focus toggle, leaves the game as it was: player, score and target.
C23_RenderLeavesGame ==
    [][(last' \in {"tick", "C-g"} /\ screenSize' = screenSize) => game' = game]_vars

(***************************************************************************)
(* A poll during the hook script's write                                   *)
(***************************************************************************)
\* C24: a poll that reads the hook file between the script's truncation and
\* its write leaves hookState at its previous value or unknown, and stores no
\* modification time but the one it had; a poll that finds the write completed
\* leaves hookState at the written state, with the file's time stored.
C24_RewriteNotLost ==
    /\ (poll.file.exists /\ poll.file.body = "garbage") =>
          /\ hookState \in {poll.was, "unknown"}
          /\ hookMtime \in {poll.prev, Null}
          /\ hookMtime # Some(poll.file.mtime)
    /\ ValidFile(poll.file) =>
          /\ hookState = poll.file.body
          /\ hookMtime = Some(poll.file.mtime)

\* A poll read the truncated file; the write then completed with the same
\* modification time, and the next poll took the written state, busy, in place
\* of the idle held until then.
C24_Witness ==
    /\ last = "tick" /\ ValidFile(poll.file)
    /\ poll.cut = Some(poll.file.mtime)
    /\ poll.was = "idle" /\ poll.file.body = "busy" /\ hookState = "busy"

====
